---- MODULE Spec2Model ----
(***************************************************************************)
(* Model of Sources/BreathObsever/Script/rr.py: the module-level signal    *)
(* pipeline (lines 34-70) and findPeakIndex (lines 25-32).                 *)
(*                                                                         *)
(* Numeric arrays are represented by the expression that produced them     *)
(* (kind) and their length (len); the floating-point contents of the       *)
(* library calls (resample, hilbert, filtfilt, convolve) are not computed. *)
(* The PSD is a sequence of power ranks (naturals); frequencies are in     *)
(* tenths of a hertz.  Python indices are 0-based: array[i] is At(array,i).*)
(***************************************************************************)
EXTENDS Integers, Sequences, FiniteSets, TLC

VARIABLES
    argv,                           \* sys.argv: <<script name, arguments...>>, strings as char sequences
    samples,                        \* line 34 / line 38
    downsampled_samples,            \* line 41
    envelope,                       \* line 44
    filtered_envelope,              \* line 50
    smoothed_envelope,              \* line 53
    downsampled_smoothed_envelope,  \* line 56
    frequencies,                    \* line 59
    psd,                            \* line 59
    written,                        \* line 61: whether arrays_to_txt wrote the file
    frame,                          \* locals of findPeakIndex: peakIndex, currentPeak, index
    peak,                           \* line 63
    respiratoryRateFrequency,       \* line 66
    emitted,                        \* line 70: the value echoed by os.system
    err,                            \* the uncaught exception that ended the run
    pc,                             \* position in the script
    trace,                          \* history: pipeline stages completed, in order
    visited,                        \* history: indices findPeakIndex compared against currentPeak
    resampleCalls,                  \* history: arguments of each scipy resample call
    smoothIn                        \* history: the array passed to np.convolve at line 53

vars == <<argv, samples, downsampled_samples, envelope, filtered_envelope,
          smoothed_envelope, downsampled_smoothed_envelope, frequencies, psd,
          written, frame, peak, respiratoryRateFrequency, emitted, err, pc,
          trace, visited, resampleCalls, smoothIn>>

(***************************************************************************)
(* Bounds of the model                                                     *)
(***************************************************************************)
MaxArg == 2     \* longest argv[1] string
MaxLen == 4     \* longest PSD handed directly to findPeakIndex
MaxPow == 2     \* largest power rank in such a PSD
MaxN == 120     \* longest array handed directly to a length computation

(***************************************************************************)
(* Program constants                                                       *)
(***************************************************************************)
fs == 24000             \* line 36
Duration == 5           \* line 37: np.arange(0, 5, 1/fs)
IntermediateRate == 1000 \* lines 41, 47, 56
FinalRate == 10         \* lines 56, 59
HannLen == 50           \* line 53: np.hanning(50)
NPerSeg == 50           \* line 59: nperseg=50

(***************************************************************************)
(* Python values                                                           *)
(***************************************************************************)
None == <<>>
Some(x) == <<x>>
At(array, i) == array[i + 1]
Min(a, b) == IF a < b THEN a ELSE b
Max(a, b) == IF a > b THEN a ELSE b

Chars == {"1", ","}
Strings == UNION {[1..n -> Chars] : n \in 0..MaxArg}
ScriptName == <<"r", "r">>

\* str.split(','): the pieces between the separators; "" splits to [""].
RECURSIVE Split(_)
Split(s) ==
    IF \A i \in 1..Len(s) : s[i] # ","
    THEN <<s>>
    ELSE LET k == CHOOSE i \in 1..Len(s) :
                      s[i] = "," /\ \A j \in 1..(i - 1) : s[j] # ","
         IN  <<SubSeq(s, 1, k - 1)>> \o Split(SubSeq(s, k + 1, Len(s)))

Buffer(kind, len) == [kind |-> kind, len |-> len]

\* line 37-38: len(np.arange(0, 5, 1/fs)) samples of a sinusoid
SyntheticSignal == Buffer("sin", Duration * fs)

(***************************************************************************)
(* Library calls, by the length of what they return                        *)
(***************************************************************************)
\* a resampling step that rounds to the nearest length instead of truncating
TargetLengthRounded(n, ft, fsrc) == (2 * n * ft + fsrc) \div (2 * fsrc)

\* lines 41, 56: int(len(x) * (ft / fsrc)).  int() truncates; in double
\* arithmetic the product truncates to the exact quotient for both rate
\* pairs of the script and every length below 300000.
TargetLength(n, ft, fsrc) == (n * ft) \div fsrc

\* a convolution that always returns as many points as its first argument
ConvolveFirstLength(n, m) == n

\* np.convolve(a, v, mode='same') returns max(len(a), len(v)) points
ConvolveSameLength(n, m) == Max(n, m)

\* welch(x, fs, nperseg): nperseg is cut down to len(x); one-sided spectrum
PsdBins(n) == IF n = 0 THEN 0 ELSE (Min(NPerSeg, n) \div 2) + 1

\* spacing of the welch frequency bins, fs/nperseg, in tenths of a hertz
BinWidth == (10 * FinalRate) \div NPerSeg

Frequencies(n) == [i \in 1..n |-> (i - 1) * BinWidth]

\* the PSD values welch may return for n bins: flat, or one bin above the rest
PsdShapes(n) ==
    {[i \in 1..n |-> 0]} \cup {[i \in 1..n |-> IF i = k THEN 1 ELSE 0] : k \in 1..n}

(***************************************************************************)
(* findPeakIndex, lines 25-32                                              *)
(***************************************************************************)
\* lines 26-27; index is not bound before the first iteration
EntryFrame == [peakIndex |-> 0, currentPeak |-> -1, index |-> None]

\* a scan over range(0, len(array)), which reaches the last element
ScanEndInclusive(array) == Len(array)

\* line 28: range(0, len(array) - 1) stops before this value
ScanEnd(array) == Len(array) - 1

\* line 28: the value the for statement binds next
NextIndex(f) == IF f.index = None THEN 0 ELSE f.index[1] + 1

\* lines 28-31: one iteration with index bound to i
ScanStep(f, array, i) ==
    IF At(array, i) > f.currentPeak
    THEN [peakIndex |-> i, currentPeak |-> At(array, i), index |-> Some(i)]
    ELSE [f EXCEPT !.index = Some(i)]

\* a return of peakIndex, which is bound even when the loop body never ran
ReturnPeakIndex(f) == Some(f.peakIndex)

\* line 32: return index (None here stands for the unbound local)
ReturnValue(f) == f.index

RECURSIVE Scan(_, _)
Scan(f, array) ==
    IF NextIndex(f) < ScanEnd(array)
    THEN Scan(ScanStep(f, array, NextIndex(f)), array)
    ELSE f

\* the whole call: Some(i) when it returns i, None when line 32 raises
findPeakIndex(array) == ReturnValue(Scan(EntryFrame, array))

(***************************************************************************)
(* The script, lines 34-70                                                 *)
(***************************************************************************)
\* line 34: samples = sys.argv[1].split(',')
Parse ==
    /\ pc = "parse"
    /\ IF Len(argv) < 2
       THEN /\ err' = Some("IndexError")
            /\ pc' = "failed"
            /\ UNCHANGED samples
       ELSE /\ samples' = Some(Buffer("argv", Len(Split(At(argv, 1)))))
            /\ pc' = "synth"
            /\ UNCHANGED err
    /\ UNCHANGED <<argv, downsampled_samples, envelope, filtered_envelope,
                   smoothed_envelope, downsampled_smoothed_envelope, frequencies,
                   psd, written, frame, peak, respiratoryRateFrequency, emitted,
                   trace, visited, resampleCalls, smoothIn>>

\* lines 36-38: samples is rebound to a generated sinusoid
Synthesize ==
    /\ pc = "synth"
    /\ samples' = Some(SyntheticSignal)
    /\ pc' = "resample1"
    /\ UNCHANGED <<argv, downsampled_samples, envelope, filtered_envelope,
                   smoothed_envelope, downsampled_smoothed_envelope, frequencies,
                   psd, written, frame, peak, respiratoryRateFrequency, emitted,
                   err, trace, visited, resampleCalls, smoothIn>>

\* the record of one resample(x, num) call
ResampleCall(x, ft, fsrc) ==
    [x |-> x, num |-> TargetLength(x.len, ft, fsrc), ft |-> ft, fsrc |-> fsrc]

\* scipy resample raises ValueError on an empty input or a target length below 1
ResampleFails(c) == c.x.len = 0 \/ c.num < 1

\* line 41: downsampled_samples = resample(samples, int(len(samples) * (1000 / fs)))
Resample1 ==
    /\ pc = "resample1"
    /\ samples # None
    /\ LET c == ResampleCall(samples[1], IntermediateRate, fs) IN
       /\ resampleCalls' = Append(resampleCalls, c)
       /\ IF ResampleFails(c)
          THEN /\ err' = Some("ValueError")
               /\ pc' = "failed"
               /\ UNCHANGED <<downsampled_samples, trace>>
          ELSE /\ downsampled_samples' = Some(Buffer("resample", c.num))
               /\ trace' = Append(trace, "Resampler1000")
               /\ pc' = "hilbert"
               /\ UNCHANGED err
    /\ UNCHANGED <<argv, samples, envelope, filtered_envelope, smoothed_envelope,
                   downsampled_smoothed_envelope, frequencies, psd, written,
                   frame, peak, respiratoryRateFrequency, emitted, visited,
                   smoothIn>>

\* line 44: envelope = np.abs(hilbert(downsampled_samples)), same length
Envelope ==
    /\ pc = "hilbert"
    /\ downsampled_samples # None
    /\ envelope' = Some(Buffer("hilbert", downsampled_samples[1].len))
    /\ trace' = Append(trace, "EnvelopeExtractor")
    /\ pc' = "filter"
    /\ UNCHANGED <<argv, samples, downsampled_samples, filtered_envelope,
                   smoothed_envelope, downsampled_smoothed_envelope, frequencies,
                   psd, written, frame, peak, respiratoryRateFrequency, emitted,
                   err, visited, resampleCalls, smoothIn>>

\* a script that smooths the unfiltered envelope, leaving the filter out
FilterSkipped ==
    /\ pc = "filter"
    /\ envelope # None
    /\ smoothIn' = envelope
    /\ smoothed_envelope' =
           Some(Buffer("convolve", ConvolveSameLength(envelope[1].len, HannLen)))
    /\ trace' = Append(trace, "Windower")
    /\ pc' = "resample2"
    /\ UNCHANGED <<argv, samples, downsampled_samples, envelope, filtered_envelope,
                   downsampled_smoothed_envelope, frequencies, psd, written,
                   frame, peak, respiratoryRateFrequency, emitted, err, visited,
                   resampleCalls>>

\* lines 47-50: butter(4, 2/500) then filtfilt(b, a, envelope), same length
Filter ==
    /\ pc = "filter"
    /\ envelope # None
    /\ filtered_envelope' = Some(Buffer("filtfilt", envelope[1].len))
    /\ trace' = Append(trace, "LowpassFilter")
    /\ pc' = "smooth"
    /\ UNCHANGED <<argv, samples, downsampled_samples, envelope,
                   smoothed_envelope, downsampled_smoothed_envelope, frequencies,
                   psd, written, frame, peak, respiratoryRateFrequency, emitted,
                   err, visited, resampleCalls, smoothIn>>

\* line 53: smoothed_envelope = np.convolve(filtered_envelope, np.hanning(50), mode='same')
\* np.convolve raises ValueError on an empty first argument and returns a new array.
Smooth ==
    /\ pc = "smooth"
    /\ filtered_envelope # None
    /\ smoothIn' = filtered_envelope
    /\ IF filtered_envelope[1].len = 0
       THEN /\ err' = Some("ValueError")
            /\ pc' = "failed"
            /\ UNCHANGED <<smoothed_envelope, trace>>
       ELSE /\ smoothed_envelope' =
                   Some(Buffer("convolve", ConvolveSameLength(filtered_envelope[1].len, HannLen)))
            /\ trace' = Append(trace, "Windower")
            /\ pc' = "resample2"
            /\ UNCHANGED err
    /\ UNCHANGED <<argv, samples, downsampled_samples, envelope, filtered_envelope,
                   downsampled_smoothed_envelope, frequencies, psd, written,
                   frame, peak, respiratoryRateFrequency, emitted, visited,
                   resampleCalls>>

\* line 56: resample(smoothed_envelope, int(len(smoothed_envelope) * (10 / 1000)))
Resample2 ==
    /\ pc = "resample2"
    /\ smoothed_envelope # None
    /\ LET c == ResampleCall(smoothed_envelope[1], FinalRate, IntermediateRate) IN
       /\ resampleCalls' = Append(resampleCalls, c)
       /\ IF ResampleFails(c)
          THEN /\ err' = Some("ValueError")
               /\ pc' = "failed"
               /\ UNCHANGED <<downsampled_smoothed_envelope, trace>>
          ELSE /\ downsampled_smoothed_envelope' = Some(Buffer("resample", c.num))
               /\ trace' = Append(trace, "Resampler10")
               /\ pc' = "welch"
               /\ UNCHANGED err
    /\ UNCHANGED <<argv, samples, downsampled_samples, envelope, filtered_envelope,
                   smoothed_envelope, frequencies, psd, written, frame, peak,
                   respiratoryRateFrequency, emitted, visited, smoothIn>>

\* line 59: frequencies, psd = welch(downsampled_smoothed_envelope, fs=10, nperseg=50)
Welch ==
    /\ pc = "welch"
    /\ downsampled_smoothed_envelope # None
    /\ LET n == PsdBins(downsampled_smoothed_envelope[1].len) IN
       /\ frequencies' = Frequencies(n)
       /\ psd' \in PsdShapes(n)
    /\ trace' = Append(trace, "SpectralEstimator")
    /\ pc' = "dump"
    /\ UNCHANGED <<argv, samples, downsampled_samples, envelope, filtered_envelope,
                   smoothed_envelope, downsampled_smoothed_envelope, written,
                   frame, peak, respiratoryRateFrequency, emitted, err, visited,
                   resampleCalls, smoothIn>>

\* line 61 (lines 6-23): arrays_to_txt writes the file or catches the IOError
ArraysToTxt ==
    /\ pc = "dump"
    /\ written' \in {Some(TRUE), Some(FALSE)}
    /\ pc' = "call"
    /\ UNCHANGED <<argv, samples, downsampled_samples, envelope, filtered_envelope,
                   smoothed_envelope, downsampled_smoothed_envelope, frequencies,
                   psd, frame, peak, respiratoryRateFrequency, emitted, err,
                   trace, visited, resampleCalls, smoothIn>>

\* line 63 entering findPeakIndex(psd), lines 26-27
PeakCall ==
    /\ pc = "call"
    /\ frame' = Some(EntryFrame)
    /\ pc' = "loop"
    /\ UNCHANGED <<argv, samples, downsampled_samples, envelope, filtered_envelope,
                   smoothed_envelope, downsampled_smoothed_envelope, frequencies,
                   psd, written, peak, respiratoryRateFrequency, emitted, err,
                   trace, visited, resampleCalls, smoothIn>>

\* lines 28-31: one iteration of the for loop
LoopStep ==
    /\ pc = "loop"
    /\ NextIndex(frame[1]) < ScanEnd(psd)
    /\ frame' = Some(ScanStep(frame[1], psd, NextIndex(frame[1])))
    /\ visited' = visited \cup {NextIndex(frame[1])}
    /\ UNCHANGED <<argv, samples, downsampled_samples, envelope, filtered_envelope,
                   smoothed_envelope, downsampled_smoothed_envelope, frequencies,
                   psd, written, peak, respiratoryRateFrequency, emitted, err,
                   pc, trace, resampleCalls, smoothIn>>

\* line 28 exhausted, line 32 return index, line 63 peak = ...
\* Reading the unbound local index raises UnboundLocalError.
PeakReturn ==
    /\ pc = "loop"
    /\ ~(NextIndex(frame[1]) < ScanEnd(psd))
    /\ IF ReturnValue(frame[1]) = None
       THEN /\ err' = Some("UnboundLocalError")
            /\ pc' = "failed"
            /\ UNCHANGED peak
       ELSE /\ peak' = ReturnValue(frame[1])
            /\ pc' = "lookup"
            /\ UNCHANGED err
    /\ UNCHANGED <<argv, samples, downsampled_samples, envelope, filtered_envelope,
                   smoothed_envelope, downsampled_smoothed_envelope, frequencies,
                   psd, written, frame, respiratoryRateFrequency, emitted, trace,
                   visited, resampleCalls, smoothIn>>

\* line 66: respiratoryRateFrequency = frequencies[peak]
Lookup ==
    /\ pc = "lookup"
    /\ IF peak[1] >= Len(frequencies)
       THEN /\ err' = Some("IndexError")
            /\ pc' = "failed"
            /\ UNCHANGED <<respiratoryRateFrequency, trace>>
       ELSE /\ respiratoryRateFrequency' = Some(At(frequencies, peak[1]))
            /\ trace' = Append(trace, "PeakSelector")
            /\ pc' = "emit"
            /\ UNCHANGED err
    /\ UNCHANGED <<argv, samples, downsampled_samples, envelope, filtered_envelope,
                   smoothed_envelope, downsampled_smoothed_envelope, frequencies,
                   psd, written, frame, peak, emitted, visited, resampleCalls,
                   smoothIn>>

\* lines 68-70: os.system(f'echo {respiratoryRateFrequency}')
Emit ==
    /\ pc = "emit"
    /\ emitted' = respiratoryRateFrequency
    /\ pc' = "done"
    /\ UNCHANGED <<argv, samples, downsampled_samples, envelope, filtered_envelope,
                   smoothed_envelope, downsampled_smoothed_envelope, frequencies,
                   psd, written, frame, peak, respiratoryRateFrequency, err,
                   trace, visited, resampleCalls, smoothIn>>

(***************************************************************************)
(* Specifications                                                          *)
(***************************************************************************)
\* everything but argv, pc and the variables an entry point sets
Blank ==
    /\ written = None /\ frame = None /\ peak = None
    /\ respiratoryRateFrequency = None /\ emitted = None /\ err = None
    /\ trace = <<>> /\ visited = {} /\ resampleCalls = <<>> /\ smoothIn = None

\* One run of the script on the argument list the caller supplies.
Init ==
    /\ argv \in {<<ScriptName>>} \cup {<<ScriptName, s>> : s \in Strings}
    /\ samples = None /\ downsampled_samples = None /\ envelope = None
    /\ filtered_envelope = None /\ smoothed_envelope = None
    /\ downsampled_smoothed_envelope = None
    /\ frequencies = <<>> /\ psd = <<>>
    /\ pc = "parse"
    /\ Blank

Next ==
    \/ Parse \/ Synthesize \/ Resample1 \/ Envelope \/ Filter \/ Smooth
    \/ Resample2 \/ Welch \/ ArraysToTxt \/ PeakCall \/ LoopStep \/ PeakReturn
    \/ Lookup \/ Emit

Spec == Init /\ [][Next]_vars

\* Peak selection (lines 63-70) applied to every PSD of up to MaxLen bins.
InitPeak ==
    /\ argv = <<ScriptName>>
    /\ samples = None /\ downsampled_samples = None /\ envelope = None
    /\ filtered_envelope = None /\ smoothed_envelope = None
    /\ downsampled_smoothed_envelope = None
    /\ psd \in UNION {[1..n -> 0..MaxPow] : n \in 0..MaxLen}
    /\ frequencies = Frequencies(Len(psd))
    /\ pc = "call"
    /\ Blank

NextPeak == PeakCall \/ LoopStep \/ PeakReturn \/ Lookup \/ Emit

SpecPeak == InitPeak /\ [][NextPeak]_vars

\* The length-changing steps (lines 41, 53, 56) applied to every array of up to
\* MaxN points.
InitLen ==
    /\ argv = <<ScriptName>>
    /\ \E n \in 0..MaxN :
        \/ /\ pc = "resample1"
           /\ samples = Some(Buffer("sin", n))
           /\ filtered_envelope = None /\ smoothed_envelope = None
        \/ /\ pc = "smooth"
           /\ filtered_envelope = Some(Buffer("filtfilt", n))
           /\ samples = None /\ smoothed_envelope = None
        \/ /\ pc = "resample2"
           /\ smoothed_envelope = Some(Buffer("convolve", n))
           /\ samples = None /\ filtered_envelope = None
    /\ downsampled_samples = None /\ envelope = None
    /\ downsampled_smoothed_envelope = None
    /\ frequencies = <<>> /\ psd = <<>>
    /\ Blank

NextLen == Resample1 \/ Smooth \/ Resample2

SpecLen == InitLen /\ [][NextLen]_vars

(***************************************************************************)
(* Properties                                                              *)
(***************************************************************************)
\* peak selection (lines 63-66) is over, one way or the other
PeakSelectionOver == pc \in {"emit", "done", "failed"}

\* indices (0-based) of the bins holding the largest power
MaxBins(array) ==
    {i \in 0..(Len(array) - 1) : \A j \in 0..(Len(array) - 1) : At(array, j) <= At(array, i)}

ReplaceLast(array, v) == [array EXCEPT ![Len(array)] = v]

IsPrefix(s, t) == Len(s) <= Len(t) /\ SubSeq(t, 1, Len(s)) = s

StageOrder ==
    <<"Resampler1000", "EnvelopeExtractor", "LowpassFilter", "Windower",
      "Resampler10", "SpectralEstimator", "PeakSelector">>

\* C1: for every PSD with at least one bin, the frequency peak selection
\* yields is that of a bin whose power is the maximum of all powers.
C1_PeakIsMaximum ==
    (Len(psd) >= 1 /\ peak # None /\ pc \in {"emit", "done"}) =>
        /\ peak[1] \in MaxBins(psd)
        /\ respiratoryRateFrequency = Some(At(frequencies, peak[1]))

\* C2: when several bins share the maximum power the lowest-index one is
\* returned; for an all-equal PSD findPeakIndex returns 0.
C2_FirstMaximumWins ==
    (Len(psd) >= 1 /\ peak # None) =>
        /\ \A i \in MaxBins(psd) : peak[1] <= i
        /\ ((\A i \in 1..Len(psd) : psd[i] = psd[1]) => peak = Some(0))

\* C3: for a PSD with exactly one bin, peak selection completes without error,
\* returns index 0 and that bin's frequency, and performs no comparison.
C3_SingleBin ==
    (Len(psd) = 1 /\ PeakSelectionOver) =>
        /\ err = None
        /\ peak = Some(0)
        /\ respiratoryRateFrequency = Some(At(frequencies, 0))
        /\ visited = {}

\* C4: for a PSD with zero bins, peak selection ends in an error (the
\* exception raised at line 32) and no frequency is produced or emitted.
C4_EmptyPsdFails ==
    Len(psd) = 0 =>
        /\ peak = None
        /\ respiratoryRateFrequency = None
        /\ emitted = None
        /\ pc \in {"call", "loop", "failed"}
        /\ (pc = "failed" <=> err = Some("UnboundLocalError"))

C4_Witness == Len(psd) = 0 /\ pc = "failed" /\ err # None /\ frame = Some(EntryFrame)

\* C5: the buffer the first resampling stage consumes is the one created from
\* argv[1], unchanged between its creation and that stage.
C5_InputBufferConsumed ==
    /\ (pc \in {"synth", "resample1"} =>
            samples = Some(Buffer("argv", Len(Split(At(argv, 1))))))
    /\ (resampleCalls # <<>> =>
            resampleCalls[1].x = Buffer("argv", Len(Split(At(argv, 1)))))

\* the caller supplied an empty sample sequence
InputEmpty == Len(argv) >= 2 /\ At(argv, 1) = <<>>

\* C6: when the input sample sequence has length 0 the run ends in an error
\* before the first resampling stage is executed, and no frequency is emitted.
C6_EmptyInputRejected ==
    InputEmpty =>
        /\ resampleCalls = <<>>
        /\ emitted = None
        /\ pc # "done"

\* C7: the stages run exactly once each in the order Resampler(1000 Hz),
\* EnvelopeExtractor, LowpassFilter, Windower, Resampler(10 Hz),
\* SpectralEstimator, PeakSelector; a stage has run only when the output of the
\* one before it exists, and the result is emitted only after PeakSelector.
C7_StagesInOrder ==
    /\ IsPrefix(trace, StageOrder)
    /\ (pc = "done" => trace = StageOrder)
    /\ (emitted # None => trace = StageOrder /\ emitted = respiratoryRateFrequency)
    /\ (Len(trace) >= 1 => samples # None /\ downsampled_samples # None)
    /\ (Len(trace) >= 2 => envelope # None)
    /\ (Len(trace) >= 3 => filtered_envelope # None)
    /\ (Len(trace) >= 4 => smoothed_envelope # None)
    /\ (Len(trace) >= 5 => downsampled_smoothed_envelope # None)
    /\ (Len(trace) >= 6 => psd # <<>> /\ Len(frequencies) = Len(psd))
    /\ (Len(trace) >= 7 => peak # None /\ respiratoryRateFrequency # None)

C7_Witness == pc = "done" /\ emitted # None /\ Len(trace) = 7

\* the smoothing step (line 53) has run on an input of at least one point
Smoothed == smoothIn # None /\ smoothed_envelope # None

Round(n, ft, fsrc) == ((2 * n * ft) \div fsrc + 1) \div 2

C10_LastElementIgnored ==
    /\ \A i \in visited : 0 <= i /\ i <= Len(psd) - 2
    /\ (pc \in {"lookup", "emit", "done", "failed"} => visited = 0..(Len(psd) - 2))
    /\ (Len(psd) >= 2 /\ pc \in {"lookup", "emit", "done"} =>
            \A v \in 0..(MaxPow + 1) :
                /\ Scan(EntryFrame, ReplaceLast(psd, v)) = frame[1]
                /\ findPeakIndex(ReplaceLast(psd, v)) = peak)

C10_Witness ==
    /\ pc = "done" /\ Len(psd) >= 3
    /\ \A i \in 1..(Len(psd) - 1) : psd[i] < psd[Len(psd)]
    /\ peak = Some(Len(psd) - 2)
    /\ visited = 0..(Len(psd) - 2)

====
